---- MODULE Spec2Model ----
(***************************************************************************)
(* Tiercade prompt-test results analyzer (analyze_test_results.py).        *)
(*                                                                         *)
(* JSON documents are modelled as TLA+ functions whose DOMAIN is the set   *)
(* of keys that are present (an absent key is not in the DOMAIN).  Values  *)
(* whose JSON type the code depends on are tagged records (JStr, JNum,     *)
(* JBool, JNull, JMap); plain counters and rates are integers (the         *)
(* arithmetic of the code is scale-free) and quotients are kept as exact   *)
(* fractions [num, den], compared by cross-multiplication.                 *)
(***************************************************************************)
EXTENDS Integers, Sequences, FiniteSets, TLC

VARIABLES
  pc,            \* position of main(), or of the call in a function harness
  fs,            \* results directory: file name -> file content
  report_files,  \* main: sorted(glob("*_report.json"))
  coord_files,   \* main: the coordinator-family files, in glob order
  idx,           \* main: how many files the current loop has processed
  analyses,      \* main: the list of analyses built by the loop
  errors,        \* main: suite ids whose "Error:" line was printed
  doc,           \* main: markdown_report
  status,        \* main: process exit status ("running" until it ends)
  arg,           \* function harness: the argument of the call
  ret            \* function harness: what the call returned

vars == <<pc, fs, report_files, coord_files, idx, analyses, errors, doc, status, arg, ret>>

---------------------------------------------------------------------------
(* Bounds of the input sets.                                               *)

MaxRuns == 2
MaxRows == 3
MaxRate == 2

---------------------------------------------------------------------------
(* Python / JSON values.                                                   *)

JNull == [k |-> "null"]
JStr(s) == [k |-> "str", v |-> s]
JNum(n) == [k |-> "num", v |-> n]
JBool(b) == [k |-> "bool", v |-> b]
JMap(m) == [k |-> "map", v |-> m]

EmptyDict == <<>>

Get(d, key, default) == IF key \in DOMAIN d THEN d[key] ELSE default

Max(a, b) == IF a >= b THEN a ELSE b
Min(a, b) == IF a <= b THEN a ELSE b

Frac(n, d) == [num |-> n, den |-> d]
FracLess(a, b) == a.num * b.den < b.num * a.den
FracEq(a, b) == a.num * b.den = b.num * a.den

Raise(e) == [ok |-> FALSE, err |-> e]
Return(x) == [ok |-> TRUE, val |-> x]

Prefix(s, n) == SubSeq(s, 1, Min(n, Len(s)))

(* A list given by its items, as an explicit tuple.                         *)
List(f) == SubSeq(f, 1, Len(f))

RECURSIVE SumSeq(_)
SumSeq(s) == IF s = <<>> THEN 0 ELSE Head(s) + SumSeq(Tail(s))

(* sorted(..., key=..., reverse=...): the keys are computed first and the   *)
(* items are ordered by them; items whose keys compare equal keep their    *)
(* original order, in both directions.  Items arrive decorated as          *)
(* [key |-> fraction, item |-> x].                                         *)
Precedes(a, b, reverse) == IF reverse THEN FracLess(b, a) ELSE FracLess(a, b)

RECURSIVE InsertStable(_, _, _)
InsertStable(s, x, reverse) ==
  IF s = <<>> THEN <<x>>
  ELSE IF Precedes(x.key, Head(s).key, reverse)
       THEN <<x>> \o s
       ELSE <<Head(s)>> \o InsertStable(Tail(s), x, reverse)

RECURSIVE SortDecorated(_, _)
SortDecorated(s, reverse) ==
  IF s = <<>> THEN <<>>
  ELSE InsertStable(SortDecorated(SubSeq(s, 1, Len(s) - 1), reverse), s[Len(s)], reverse)

Undecorate(s) == List([i \in 1..Len(s) |-> s[i].item])

(* The same ordering obtained by sorting ascending and reversing the       *)
(* result: descending, but equal keys come out in reverse order.           *)
SortAscendingThenReverse(s) ==
  LET a == SortDecorated(s, FALSE)
  IN  List([i \in 1..Len(a) |-> a[Len(a) + 1 - i]])

---------------------------------------------------------------------------
(* analyze_suite                                                           *)

PromptRow(agg) ==
  LET stats == Get(agg, "overallStats", EmptyDict)
  IN  [ promptId         |-> Get(agg, "promptId", JNull),
        promptName       |-> Get(agg, "promptName", JNull),
        passAtNRate      |-> Get(stats, "passAtNRate", 0) * 100,
        meanDupRate      |-> Get(stats, "meanDupRate", 0) * 100,
        stdevDupRate     |-> Get(stats, "stdevDupRate", 0) * 100,
        jsonStrictRate   |-> Get(stats, "jsonStrictRate", 0) * 100,
        insufficientRate |-> Get(stats, "insufficientRate", 0) * 100,
        formatErrorRate  |-> Get(stats, "formatErrorRate", 0) * 100,
        meanQualityScore |-> Get(stats, "meanQualityScore", 0),
        totalRuns        |-> Get(agg, "totalRuns", 0) ]

SortByPassRateUnstable(rows) ==
  Undecorate(SortAscendingThenReverse(
    List([i \in 1..Len(rows) |-> [key |-> Frac(rows[i].passAtNRate, 1), item |-> rows[i]]])))

SortByPassRate(rows) ==
  Undecorate(SortDecorated(
    List([i \in 1..Len(rows) |-> [key |-> Frac(rows[i].passAtNRate, 1), item |-> rows[i]]]),
    TRUE))

SuccessRate(successful_runs, total_runs) ==
  Frac(successful_runs * 100, Max(1, total_runs))

analyze_suite(suite_id, report) ==
  LET total_runs == Get(report, "totalRuns", 0)
      successful_runs == Get(report, "successfulRuns", 0)
      failed_runs == Get(report, "failedRuns", 0)
      total_duration == Get(report, "totalDuration", 0)
      rankings == Get(report, "rankings", JMap(EmptyDict))
      aggregates == Get(report, "aggregateResults", <<>>)
  IN  IF rankings.k # "map" THEN Raise("AttributeError")
      ELSE Return(
        [ suite_id             |-> suite_id,
          suite_name           |-> Get(report, "suiteName", suite_id),
          total_runs           |-> total_runs,
          successful_runs      |-> successful_runs,
          failed_runs          |-> failed_runs,
          success_rate         |-> SuccessRate(successful_runs, total_runs),
          total_duration       |-> total_duration,
          avg_duration_per_run |-> Frac(total_duration, Max(1, total_runs)),
          top_prompts          |->
            [ byPassRate    |-> Prefix(Get(rankings.v, "byPassRate", <<>>), 3),
              byQuality     |-> Prefix(Get(rankings.v, "byQuality", <<>>), 3),
              bySpeed       |-> Prefix(Get(rankings.v, "bySpeed", <<>>), 3),
              byConsistency |-> Prefix(Get(rankings.v, "byConsistency", <<>>), 3) ],
          prompt_analysis      |->
            SortByPassRate(List([i \in 1..Len(aggregates) |-> PromptRow(aggregates[i])])),
          environment          |-> Get(report, "environment", EmptyDict) ])

---------------------------------------------------------------------------
(* generate_markdown_report                                                *)

BestCount == 5
WorstCount == 3
TableRows == 10

(* Executive summary: the totals over the analyses.                        *)
Totals(as) ==
  LET total_tests == SumSeq(List([i \in 1..Len(as) |-> as[i].total_runs]))
      total_passed == SumSeq(List([i \in 1..Len(as) |-> as[i].successful_runs]))
  IN  [ total_tests  |-> total_tests,
        total_passed |-> total_passed,
        total_failed |-> SumSeq(List([i \in 1..Len(as) |-> as[i].failed_runs])),
        overall_rate |-> Frac(total_passed * 100, Max(1, total_tests)),
        total_time   |-> SumSeq(List([i \in 1..Len(as) |-> as[i].total_duration])) ]

SuiteTableRow(analysis) ==
  [ suite_name           |-> analysis.suite_name,
    total_runs           |-> analysis.total_runs,
    success_rate         |-> analysis.success_rate,
    total_duration       |-> analysis.total_duration,
    avg_duration_per_run |-> analysis.avg_duration_per_run ]

(* One "Top Prompts by ..." list: prompt['promptName'] and prompt['score'] *)
(* are subscripted, so an entry lacking either key raises KeyError.        *)
RankingListRaises(entries) ==
  \E i \in 1..Len(entries) :
    "promptName" \notin DOMAIN entries[i] \/ "score" \notin DOMAIN entries[i]

RankingList(entries) ==
  List([i \in 1..Len(entries) |-> [promptName |-> entries[i].promptName, score |-> entries[i].score]])

(* The prompt table: prompt['promptName'][:30] raises TypeError on None.   *)
PromptTableRaises(rows) ==
  \E i \in 1..Len(rows) : rows[i].promptName.k # "str"

PromptTable(rows) ==
  List([i \in 1..Len(rows) |->
     [ promptName       |-> rows[i].promptName,
       passAtNRate      |-> rows[i].passAtNRate,
       meanDupRate      |-> rows[i].meanDupRate,
       stdevDupRate     |-> rows[i].stdevDupRate,
       jsonStrictRate   |-> rows[i].jsonStrictRate,
       meanQualityScore |-> rows[i].meanQualityScore,
       totalRuns        |-> rows[i].totalRuns ]])

SuiteSectionRaises(analysis) ==
  \/ RankingListRaises(analysis.top_prompts.byPassRate)
  \/ RankingListRaises(analysis.top_prompts.byQuality)
  \/ RankingListRaises(analysis.top_prompts.bySpeed)
  \/ PromptTableRaises(Prefix(analysis.prompt_analysis, TableRows))

SuiteSection(analysis) ==
  [ suite_name      |-> analysis.suite_name,
    suite_id        |-> analysis.suite_id,
    total_runs      |-> analysis.total_runs,
    successful_runs |-> analysis.successful_runs,
    success_rate    |-> analysis.success_rate,
    failed_runs     |-> analysis.failed_runs,
    total_duration  |-> analysis.total_duration,
    avg_duration_per_run |-> analysis.avg_duration_per_run,
    environment     |-> analysis.environment,
    byPassRate      |-> RankingList(analysis.top_prompts.byPassRate),
    byQuality       |-> RankingList(analysis.top_prompts.byQuality),
    bySpeed         |-> RankingList(analysis.top_prompts.bySpeed),
    prompt_table    |-> PromptTable(Prefix(analysis.prompt_analysis, TableRows)) ]

(* all_prompts is a dict: a sequence of entries with distinct pid, in      *)
(* insertion order.                                                        *)
AddPromptOverwrite(all_prompts, prompt) ==
  LET pid == prompt.promptId
      base == IF \E i \in 1..Len(all_prompts) : all_prompts[i].pid = pid
              THEN all_prompts
              ELSE Append(all_prompts,
                     [ pid |-> pid, name |-> prompt.promptName, total_runs |-> 0,
                       total_pass_rate |-> 0, total_dup_rate |-> 0, suite_count |-> 0 ])
  IN  List([i \in 1..Len(base) |->
         IF base[i].pid = pid
         THEN [ base[i] EXCEPT !.total_runs = @ + prompt.totalRuns,
                               !.total_pass_rate = prompt.passAtNRate,
                               !.total_dup_rate = @ + prompt.meanDupRate,
                               !.suite_count = @ + 1 ]
         ELSE base[i]])

AddPrompt(all_prompts, prompt) ==
  LET pid == prompt.promptId
      base == IF \E i \in 1..Len(all_prompts) : all_prompts[i].pid = pid
              THEN all_prompts
              ELSE Append(all_prompts,
                     [ pid |-> pid, name |-> prompt.promptName, total_runs |-> 0,
                       total_pass_rate |-> 0, total_dup_rate |-> 0, suite_count |-> 0 ])
  IN  List([i \in 1..Len(base) |->
         IF base[i].pid = pid
         THEN [ base[i] EXCEPT !.total_runs = @ + prompt.totalRuns,
                               !.total_pass_rate = @ + prompt.passAtNRate,
                               !.total_dup_rate = @ + prompt.meanDupRate,
                               !.suite_count = @ + 1 ]
         ELSE base[i]])

RECURSIVE AddPrompts(_, _)
AddPrompts(all_prompts, rows) ==
  IF rows = <<>> THEN all_prompts
  ELSE AddPrompts(AddPrompt(all_prompts, Head(rows)), Tail(rows))

RECURSIVE CollectPrompts(_, _)
CollectPrompts(all_prompts, as) ==
  IF as = <<>> THEN all_prompts
  ELSE CollectPrompts(AddPrompts(all_prompts, Head(as).prompt_analysis), Tail(as))

WithAverages(all_prompts) ==
  List([i \in 1..Len(all_prompts) |->
     [ pid             |-> all_prompts[i].pid,
       name            |-> all_prompts[i].name,
       total_runs      |-> all_prompts[i].total_runs,
       total_pass_rate |-> all_prompts[i].total_pass_rate,
       total_dup_rate  |-> all_prompts[i].total_dup_rate,
       suite_count     |-> all_prompts[i].suite_count,
       avg_pass_rate   |-> Frac(all_prompts[i].total_pass_rate, all_prompts[i].suite_count),
       avg_dup_rate    |-> Frac(all_prompts[i].total_dup_rate, all_prompts[i].suite_count) ]])

SortByAvgPassRateUnstable(items, reverse) ==
  LET dec == List([i \in 1..Len(items) |-> [key |-> items[i].avg_pass_rate, item |-> items[i]]])
  IN  Undecorate(IF reverse THEN SortAscendingThenReverse(dec) ELSE SortDecorated(dec, FALSE))

SortByAvgPassRate(items, reverse) ==
  Undecorate(SortDecorated(
    List([i \in 1..Len(items) |-> [key |-> items[i].avg_pass_rate, item |-> items[i]]]),
    reverse))

Leaderboard(as) == WithAverages(CollectPrompts(<<>>, as))

generate_markdown_report(as) ==
  IF \E i \in 1..Len(as) : SuiteSectionRaises(as[i])
  THEN Raise("KeyError or TypeError")
  ELSE LET all_prompts == Leaderboard(as)
       IN  Return(
             [ totals        |-> Totals(as),
               table         |-> List([i \in 1..Len(as) |-> SuiteTableRow(as[i])]),
               sections      |-> List([i \in 1..Len(as) |-> SuiteSection(as[i])]),
               all_prompts   |-> all_prompts,
               best_overall  |-> Prefix(SortByAvgPassRate(all_prompts, TRUE), BestCount),
               worst_overall |-> Prefix(SortByAvgPassRate(all_prompts, FALSE), WorstCount),
               appendix      |-> <<>> ])

---------------------------------------------------------------------------
(* The coordinator appendix (main, the body of the loop over coord_files). *)
(* The appendix is a list of lines.                                        *)

Heading(name) == [line |-> "h3", name |-> name]
Blank == [line |-> "blank"]
ErrorLine == [line |-> "error parsing report"]
TableHead == [line |-> "table head"]
TableRule == [line |-> "table rule"]

Truthy(d, key) == key \in DOMAIN d /\ d[key] = TRUE

CountTruthy(records, key) ==
  Cardinality({ i \in 1..Len(records) : Truthy(records[i], key) })

ScenarioIdOf(r) == Get(r, "scenarioId", JStr("unknown"))

(* by_scenario.setdefault(sid, []).append(r): groups in insertion order.   *)
AddToScenario(by_scenario, r) ==
  LET sid == ScenarioIdOf(r)
  IN  IF \E g \in 1..Len(by_scenario) : by_scenario[g].sid = sid
      THEN List([g \in 1..Len(by_scenario) |->
                   IF by_scenario[g].sid = sid
                   THEN [by_scenario[g] EXCEPT !.runs = Append(@, r)]
                   ELSE by_scenario[g]])
      ELSE Append(by_scenario, [sid |-> sid, runs |-> <<r>>])

RECURSIVE GroupByScenario(_, _)
GroupByScenario(by_scenario, results) ==
  IF results = <<>> THEN by_scenario
  ELSE GroupByScenario(AddToScenario(by_scenario, Head(results)), Tail(results))

(* diag = r.get('diagnostics') or {}: None and {} give {}, a mapping is    *)
(* kept, any other (truthy) value has no .get and raises.                  *)
DiagnosticsRaises(r) == Get(r, "diagnostics", JNull).k \notin {"null", "map"}

DiagnosticsOf(r) ==
  LET d == Get(r, "diagnostics", JNull)
  IN  IF d.k = "map" THEN d.v ELSE EmptyDict

(* isinstance(val, (int, float)): a JSON number, and also a JSON boolean   *)
(* (bool is a subclass of int: True is 1 and False is 0).                  *)
IsIntOrFloat(val) == val.k \in {"num", "bool"}

NumberOf(val) == IF val.k = "bool" THEN (IF val.v THEN 1 ELSE 0) ELSE val.v

DupVals(runs) ==
  LET vals == List([i \in 1..Len(runs) |-> Get(DiagnosticsOf(runs[i]), "dupRate", JNull)])
      kept == SelectSeq(vals, IsIntOrFloat)
  IN  List([i \in 1..Len(kept) |-> NumberOf(kept[i])])

ScenarioRowRaises(group) ==
  \/ Get(group.runs[1], "scenarioName", group.sid).k # "str"
  \/ \E i \in 1..Len(group.runs) : DiagnosticsRaises(group.runs[i])

ScenarioRow(group) ==
  LET runs == group.runs
      n == Len(runs)
      dup_vals == DupVals(runs)
      avg_dup == IF dup_vals # <<>> THEN Frac(SumSeq(dup_vals), Len(dup_vals)) ELSE Frac(0, 1)
  IN  [ line    |-> "row",
        name    |-> Get(runs[1], "scenarioName", group.sid),
        n       |-> n,
        p       |-> CountTruthy(runs, "passAtN"),
        avg_u   |-> Frac(SumSeq(List([i \in 1..n |-> Get(runs[i], "uniqueItems", 0)])), Max(1, n)),
        avg_dup |-> Frac(avg_dup.num * 100, avg_dup.den),
        esc     |-> CountTruthy(runs, "wouldEscalatePCC") ]

(* The lines one coordinator file adds.  The lines appended before an      *)
(* exception stay in the list; the handler then appends the error stub.    *)
CoordinatorLines(name, content) ==
  LET stub == << Heading(name), Blank, ErrorLine, Blank >>
  IN  IF content.k # "map" THEN stub
      ELSE
        LET data == content.v
            results == Get(data, "results", <<>>)
            header ==
              << Heading(name), Blank,
                 [line |-> "scenarios", v |-> Get(data, "scenarios", <<>>)],
                 [line |-> "runs", v |-> Get(data, "totalRuns", Len(results))],
                 [line |-> "successful",
                  v |-> Get(data, "successfulRuns", CountTruthy(results, "passAtN"))],
                 Blank >>
            by_scenario == GroupByScenario(<<>>, results)
            raising == { g \in 1..Len(by_scenario) : ScenarioRowRaises(by_scenario[g]) }
            done == IF raising = {} THEN Len(by_scenario)
                    ELSE (CHOOSE g \in raising : \A h \in raising : g <= h) - 1
            rows == List([g \in 1..done |-> ScenarioRow(by_scenario[g])])
        IN  IF raising = {}
            THEN header \o << TableHead, TableRule >> \o rows \o << Blank >>
            ELSE header \o << TableHead, TableRule >> \o rows \o stub

---------------------------------------------------------------------------
(* main                                                                    *)

(* File names are sequences of tokens; NameOrder lists the names of the    *)
(* model in the lexicographic order of their text ('-' sorts before '_').  *)
NameOrder ==
  << <<"alpha", "_", "report.json">>,
     <<"beta", "_", "report.json">>,
     <<"coordinator_experiments", "-", "report.json">>,
     <<"coordinator_experiments", "_", "report.json">>,
     <<"coordinator_experiments", "_v2", "-", "report.json">>,
     <<"coordinator_experiments", "_v2", "_", "report.json">> >>

FileNames == { NameOrder[i] : i \in 1..Len(NameOrder) }

OutputName == <<"01_DETAILED_ANALYSIS", ".md">>

EndsWith(name, suffix) ==
  /\ Len(name) >= Len(suffix)
  /\ SubSeq(name, Len(name) - Len(suffix) + 1, Len(name)) = suffix

(* glob("*_report.json")                                                   *)
MatchesReportGlob(name) == EndsWith(name, <<"_", "report.json">>)

(* glob("coordinator_experiments*_report.json")                            *)
MatchesCoordGlob(name) ==
  name[1] = "coordinator_experiments" /\ EndsWith(name, <<"_", "report.json">>)

(* glob("coordinator_experiments*.json") with name.endswith("report.json") *)
MatchesCoordFallback(name) ==
  name[1] = "coordinator_experiments" /\ EndsWith(name, <<"report.json">>)

Sorted(names) == SelectSeq(NameOrder, LAMBDA n : n \in names)

(* report_path.stem.replace('_report', '')                                 *)
SuiteId(name) == SubSeq(name, 1, Len(name) - 2)

ReportFiles(dir) == Sorted({ n \in DOMAIN dir : MatchesReportGlob(n) })

CoordFileSet(dir) ==
  LET primary == { n \in DOMAIN dir : MatchesCoordGlob(n) }
  IN  IF primary # {} THEN primary
      ELSE { n \in DOMAIN dir : MatchesCoordFallback(n) }

(* glob yields the directory's entries in no particular order.             *)
Orderings(names) ==
  { f \in [1..Cardinality(names) -> names] :
      \A i, j \in 1..Cardinality(names) : f[i] = f[j] => i = j }

load_report(content) ==
  IF content.k = "map" THEN Return(content.v) ELSE Raise("JSONDecodeError")

FindReports ==
  /\ pc = "start"
  /\ report_files' = ReportFiles(fs)
  /\ IF report_files' = <<>>
     THEN pc' = "exit" /\ status' = 1
     ELSE pc' = "analyze" /\ status' = status
  /\ idx' = 0
  /\ UNCHANGED <<fs, coord_files, analyses, errors, doc, arg, ret>>

AnalyzeReport ==
  /\ pc = "analyze"
  /\ idx < Len(report_files)
  /\ LET report_path == report_files[idx + 1]
         suite_id == SuiteId(report_path)
         report == load_report(fs[report_path])
         analysis == IF report.ok THEN analyze_suite(suite_id, report.val) ELSE report
     IN  IF analysis.ok
         THEN analyses' = Append(analyses, analysis.val) /\ errors' = errors
         ELSE analyses' = analyses /\ errors' = Append(errors, suite_id)
  /\ idx' = idx + 1
  /\ pc' = IF idx' = Len(report_files) THEN "render" ELSE "analyze"
  /\ UNCHANGED <<fs, report_files, coord_files, doc, status, arg, ret>>

(* An exception of generate_markdown_report is caught nowhere: the run     *)
(* ends with a traceback and exit status 1, and writes no document.        *)
GenerateReport ==
  /\ pc = "render"
  /\ LET report == generate_markdown_report(analyses)
     IN  IF report.ok
         THEN /\ \E order \in Orderings(CoordFileSet(fs)) : coord_files' = order
              /\ doc' = [ report.val EXCEPT !.appendix =
                            IF coord_files' # <<>>
                            THEN << [line |-> "rule"], [line |-> "h2 appendix"], Blank >>
                            ELSE <<>> ]
              /\ pc' = IF coord_files' # <<>> THEN "coord" ELSE "save"
              /\ status' = status
         ELSE /\ pc' = "exit"
              /\ status' = 1
              /\ UNCHANGED <<coord_files, doc>>
  /\ idx' = 0
  /\ UNCHANGED <<fs, report_files, analyses, errors, arg, ret>>

IngestCoordinator ==
  /\ pc = "coord"
  /\ idx < Len(coord_files)
  /\ LET path == coord_files[idx + 1]
     IN  doc' = [doc EXCEPT !.appendix = @ \o CoordinatorLines(path, fs[path])]
  /\ idx' = idx + 1
  /\ pc' = IF idx' = Len(coord_files) THEN "save" ELSE "coord"
  /\ UNCHANGED <<fs, report_files, coord_files, analyses, errors, status, arg, ret>>

SaveReport ==
  /\ pc = "save"
  /\ fs' = fs @@ (OutputName :> [k |-> "markdown", v |-> doc])
  /\ status' = 0
  /\ pc' = "exit"
  /\ UNCHANGED <<report_files, coord_files, idx, analyses, errors, doc, arg, ret>>

(* The files the model puts in the results directory.                      *)
MaxFiles == 3

NotJson == [k |-> "text"]

GoodSuite ==
  JMap([ totalRuns |-> 2, successfulRuns |-> 1, failedRuns |-> 1,
         aggregateResults |->
           << [ promptId |-> JStr("p1"), promptName |-> JStr("first"),
                overallStats |-> [passAtNRate |-> 1], totalRuns |-> 2 ] >> ])

SuiteRankingsNotAMapping == JMap([ totalRuns |-> 2, successfulRuns |-> 2, rankings |-> JNum(7) ])

SuiteWithoutPromptName ==
  JMap([ totalRuns |-> 1, successfulRuns |-> 1,
         aggregateResults |-> << [ promptId |-> JStr("p2"), totalRuns |-> 1 ] >> ])

SuiteWithoutScore ==
  JMap([ totalRuns |-> 1,
         rankings |-> JMap([ byPassRate |-> << [promptName |-> JStr("first")] >> ]) ])

GoodCoordinator ==
  JMap([ totalRuns |-> 2, successfulRuns |-> 1,
         results |->
           << [ scenarioId |-> JStr("s1"), scenarioName |-> JStr("one"), passAtN |-> TRUE,
                diagnostics |-> JMap([dupRate |-> JNum(1)]) ],
              [ scenarioId |-> JStr("s1"), passAtN |-> FALSE ] >> ])

CoordinatorNullName ==
  JMap([ results |->
           << [ scenarioId |-> JStr("s1"), passAtN |-> TRUE ],
              [ scenarioId |-> JStr("s2"), scenarioName |-> JNull ] >> ])

MainContents ==
  { NotJson, JMap(EmptyDict), GoodSuite, SuiteRankingsNotAMapping, SuiteWithoutPromptName,
    SuiteWithoutScore, GoodCoordinator, CoordinatorNullName }

Directories ==
  UNION { [names -> MainContents] :
            names \in { S \in SUBSET FileNames : Cardinality(S) <= MaxFiles } }

Init ==
  /\ pc = "start"
  /\ fs \in Directories
  /\ report_files = <<>>
  /\ coord_files = <<>>
  /\ idx = 0
  /\ analyses = <<>>
  /\ errors = <<>>
  /\ doc = <<>>
  /\ status = "running"
  /\ arg = <<>>
  /\ ret = <<>>

Next ==
  \/ FindReports
  \/ AnalyzeReport
  \/ GenerateReport
  \/ IngestCoordinator
  \/ SaveReport

Spec == Init /\ [][Next]_vars

---------------------------------------------------------------------------
(* Input sets.                                                             *)

Opt(key, S) == { EmptyDict } \cup { (key :> v) : v \in S }

SeqsUpTo(S, n) == UNION { [1..m -> S] : m \in 0..n }

PromptIdNames == {"p1"}

AggRows ==
  { a @@ b : a \in Opt("promptId", { JStr(p) : p \in PromptIdNames }),
             b \in Opt("overallStats", Opt("passAtNRate", 1..MaxRate)) }

---------------------------------------------------------------------------
(* Harness of analyze_suite: one call on one report.                       *)

MainIdle ==
  /\ fs = EmptyDict
  /\ report_files = <<>>
  /\ coord_files = <<>>
  /\ idx = 0
  /\ analyses = <<>>
  /\ errors = <<>>
  /\ doc = <<>>
  /\ status = "running"

InitAnalyze ==
  /\ pc = "call"
  /\ \E a \in Opt("totalRuns", 0..MaxRuns) :
       \E b \in Opt("successfulRuns", 0..MaxRuns) :
         \E c \in Opt("rankings", { JNum(7) }) :
           \E d \in Opt("aggregateResults", SeqsUpTo(AggRows, MaxRows) \ { <<>> }) :
             arg = a @@ b @@ c @@ d
  /\ ret = Raise("pending")
  /\ MainIdle

CallAnalyze ==
  /\ pc = "call"
  /\ ret' = analyze_suite("suite", arg)
  /\ pc' = "returned"
  /\ UNCHANGED <<fs, report_files, coord_files, idx, analyses, errors, doc, status, arg>>

SpecAnalyze == InitAnalyze /\ [][CallAnalyze]_vars

---------------------------------------------------------------------------
(* Harness of generate_markdown_report: one call on a list of analyses,    *)
(* each of them the analysis analyze_suite returns for some report.        *)

NumPrompts == 6
MaxSuites == 3
MaxBoardRows == 2

PromptNames == <<"p1", "p2", "p3", "p4", "p5", "p6", "p7", "p8">>
SuiteNames == <<"suiteA", "suiteB", "suiteC", "suiteD">>
BoardRates == {1, 2}

(* The code only compares prompt ids for equality, so the raw reports are  *)
(* enumerated up to renaming of the ids: over all the aggregateResults     *)
(* lists, in file order, a new id is always the next unused one.  (The     *)
(* order inside prompt_analysis is the sorted one, so first sighting in    *)
(* the analyses is not tied to the numbering.)                             *)
RECURSIVE MaxOf(_)
MaxOf(s) == IF s = <<>> THEN 0 ELSE Max(Head(s), MaxOf(Tail(s)))

RECURSIVE IdPatterns(_)
IdPatterns(len) ==
  IF len = 0 THEN { <<>> }
  ELSE UNION { { Append(f, p) : p \in 1..Min(NumPrompts, MaxOf(f) + 1) } :
               f \in IdPatterns(len - 1) }

BoardShapes == UNION { [1..n -> 0..MaxBoardRows] : n \in 0..MaxSuites }

BoardAggRow(p, r) ==
  [ promptId     |-> JStr(PromptNames[p]),
    promptName   |-> JStr(PromptNames[p]),
    overallStats |-> [passAtNRate |-> r, meanDupRate |-> 3 - r],
    totalRuns    |-> r ]

BoardInput(shape, ids, rates) ==
  List([i \in 1..Len(shape) |->
     LET off == SumSeq(SubSeq(shape, 1, i - 1))
     IN  analyze_suite(SuiteNames[i],
           [aggregateResults |->
              List([j \in 1..shape[i] |-> BoardAggRow(ids[off + j], rates[off + j])])]).val])

InitBoard ==
  /\ pc = "call"
  /\ \E shape \in BoardShapes :
       \E ids \in IdPatterns(SumSeq(shape)) :
         \E rates \in [1..SumSeq(shape) -> BoardRates] :
           arg = BoardInput(shape, ids, rates)
  /\ ret = Raise("pending")
  /\ MainIdle

CallReport ==
  /\ pc = "call"
  /\ ret' = generate_markdown_report(arg)
  /\ pc' = "returned"
  /\ UNCHANGED <<fs, report_files, coord_files, idx, analyses, errors, doc, status, arg>>

SpecBoard == InitBoard /\ [][CallReport]_vars

---------------------------------------------------------------------------
(* Harness of the coordinator ingestion: one file, one pass of the loop    *)
(* body.                                                                   *)

MaxRecords == 3

ScenarioIds == { JStr("s1"), JStr("s2") }

DupRateValues == { JNull, JStr("n/a"), JBool(TRUE), JNum(1), JNum(3) }

CoordRecords ==
  { a @@ b @@ c :
      a \in Opt("scenarioId", ScenarioIds),
      b \in Opt("passAtN", { TRUE }),
      c \in Opt("diagnostics", { JNull } \cup { JMap(d) : d \in Opt("dupRate", DupRateValues) }) }

InitCoord ==
  /\ pc = "call"
  /\ \E n \in 0..MaxRecords : \E results \in [1..n -> CoordRecords] :
       arg = JMap([results |-> results])
  /\ ret = <<>>
  /\ MainIdle

CallIngest ==
  /\ pc = "call"
  /\ ret' = CoordinatorLines(NameOrder[3], arg)
  /\ pc' = "returned"
  /\ UNCHANGED <<fs, report_files, coord_files, idx, analyses, errors, doc, status, arg>>

SpecCoord == InitCoord /\ [][CallIngest]_vars

---------------------------------------------------------------------------
(* C1: for every report, 0 <= success_rate <= 100, and success_rate = 0    *)
(* exactly when totalRuns = 0 or successfulRuns = 0 (absent counts as 0).  *)
C1_SuccessRateInRange ==
  (pc = "returned" /\ ret.ok) =>
    LET r == ret.val.success_rate
    IN  /\ 0 <= r.num
        /\ r.num <= 100 * r.den
        /\ (r.num = 0) <=>
             (Get(arg, "totalRuns", 0) = 0 \/ Get(arg, "successfulRuns", 0) = 0)

(* C1 fails on the code: a report whose successfulRuns exceeds totalRuns   *)
(* (totalRuns absent included) gets a success_rate above 100.              *)

---------------------------------------------------------------------------
(* C5: prompt_analysis is a permutation of the rows built from             *)
(* aggregateResults, in descending order of the scaled passAtNRate, and    *)
(* rows with equal passAtNRate keep the relative order they had in         *)
(* aggregateResults.  Stated per key value: the rows of the result that    *)
(* carry a given passAtNRate are, in order, the built rows that carry it.  *)
BuiltRows(report) ==
  LET aggs == Get(report, "aggregateResults", <<>>)
  IN  List([i \in 1..Len(aggs) |-> PromptRow(aggs[i])])

RowsWithRate(rows, v) == SelectSeq(rows, LAMBDA r : r.passAtNRate = v)

C5_PromptAnalysisStableDescending ==
  (pc = "returned" /\ ret.ok) =>
    LET out == ret.val.prompt_analysis
        built == BuiltRows(arg)
    IN  /\ Len(out) = Len(built)
        /\ \A i, j \in 1..Len(out) : i < j => out[i].passAtNRate >= out[j].passAtNRate
        /\ \A i \in 1..Len(built) :
             RowsWithRate(out, built[i].passAtNRate) = RowsWithRate(built, built[i].passAtNRate)
        /\ \A i \in 1..Len(out) : \E j \in 1..Len(built) : out[i] = built[j]

(* Reached: a report whose rows are not yet in descending order and hold   *)
(* two different rows with the same passAtNRate.                           *)
C5_Witness ==
  /\ pc = "returned"
  /\ ret.ok
  /\ LET built == BuiltRows(arg)
     IN  /\ ret.val.prompt_analysis # built
         /\ \E i, j \in 1..Len(built) :
              /\ i < j
              /\ built[i].passAtNRate = built[j].passAtNRate
              /\ built[i] # built[j]
              /\ built[i].passAtNRate > 0

---------------------------------------------------------------------------
(* The leaderboard, read off the analyses themselves.                      *)

RECURSIVE Flatten(_)
Flatten(as) == IF as = <<>> THEN <<>> ELSE Head(as).prompt_analysis \o Flatten(Tail(as))

SeenPids(as) == { Flatten(as)[k].promptId : k \in 1..Len(Flatten(as)) }

FirstSighting(as, pid) ==
  CHOOSE k \in 1..Len(Flatten(as)) :
    /\ Flatten(as)[k].promptId = pid
    /\ \A m \in 1..(k - 1) : Flatten(as)[m].promptId # pid

RowsOfPid(as, pid) == SelectSeq(Flatten(as), LAMBDA r : r.promptId = pid)

SuitesWithPid(as, pid) ==
  { i \in 1..Len(as) :
      \E k \in 1..Len(as[i].prompt_analysis) : as[i].prompt_analysis[k].promptId = pid }

RECURSIVE SumField(_, _)
SumField(rows, field) ==
  IF rows = <<>> THEN 0 ELSE Head(rows)[field] + SumField(Tail(rows), field)

AvgPassOf(as, pid) ==
  Frac(SumField(RowsOfPid(as, pid), "passAtNRate"), Len(RowsOfPid(as, pid)))

PidsOf(list) == { list[k].pid : k \in 1..Len(list) }

(* C6: every leaderboard entry has suite_count >= 1, suite_count is the    *)
(* number of suites whose prompt_analysis contains the promptId, the       *)
(* totals are the sums of the prompt's values over those suites, and       *)
(* avg_pass_rate = total_pass_rate / suite_count.                          *)
C6_LeaderboardCountsSuites ==
  (pc = "returned" /\ ret.ok) =>
    /\ PidsOf(ret.val.all_prompts) = SeenPids(arg)
    /\ \A k \in 1..Len(ret.val.all_prompts) :
         LET e == ret.val.all_prompts[k]
             rows == RowsOfPid(arg, e.pid)
         IN  /\ e.suite_count >= 1
             /\ e.suite_count = Cardinality(SuitesWithPid(arg, e.pid))
             /\ e.total_pass_rate = SumField(rows, "passAtNRate")
             /\ e.total_dup_rate = SumField(rows, "meanDupRate")
             /\ e.total_runs = SumField(rows, "totalRuns")
             /\ e.avg_pass_rate = Frac(e.total_pass_rate, e.suite_count)

(* What does hold: suite_count is the number of prompt_analysis rows that  *)
(* carry the promptId, over all suites.                                    *)
C6_LeaderboardCountsRows ==
  (pc = "returned" /\ ret.ok) =>
    /\ PidsOf(ret.val.all_prompts) = SeenPids(arg)
    /\ \A k \in 1..Len(ret.val.all_prompts) :
         LET e == ret.val.all_prompts[k]
             rows == RowsOfPid(arg, e.pid)
         IN  /\ e.suite_count >= 1
             /\ e.suite_count = Len(rows)
             /\ e.suite_count >= Cardinality(SuitesWithPid(arg, e.pid))
             /\ e.total_pass_rate = SumField(rows, "passAtNRate")
             /\ e.total_dup_rate = SumField(rows, "meanDupRate")
             /\ e.total_runs = SumField(rows, "totalRuns")
             /\ e.avg_pass_rate = Frac(e.total_pass_rate, e.suite_count)

---------------------------------------------------------------------------
(* C7: for every permutation of the analyses, best_overall holds the same  *)
(* set of promptIds and worst_overall holds the same set of promptIds.     *)
SuiteOrders(n) ==
  { f \in [1..n -> 1..n] : \A i, j \in 1..n : f[i] = f[j] => i = j }

Permuted(as, f) == List([i \in 1..Len(as) |-> as[f[i]]])

NoTieAcrossCut(as, list) ==
  \A p \in PidsOf(list) : \A q \in SeenPids(as) \ PidsOf(list) :
    ~FracEq(AvgPassOf(as, p), AvgPassOf(as, q))

---------------------------------------------------------------------------
(* C8: best_overall is the first min(5, n) leaderboard entries in          *)
(* descending avg_pass_rate order, worst_overall the first min(3, n) in    *)
(* ascending order, and entries with equal avg_pass_rate appear in         *)
(* first-sighting order (suite order, then row order inside the suite).    *)
RanksBefore(as, p, q, reverse) ==
  \/ IF reverse THEN FracLess(AvgPassOf(as, q), AvgPassOf(as, p))
                ELSE FracLess(AvgPassOf(as, p), AvgPassOf(as, q))
  \/ /\ FracEq(AvgPassOf(as, p), AvgPassOf(as, q))
     /\ FirstSighting(as, p) < FirstSighting(as, q)

IsLeadingPart(as, list, count, reverse) ==
  /\ Len(list) = Min(count, Cardinality(SeenPids(as)))
  /\ PidsOf(list) \subseteq SeenPids(as)
  /\ \A i \in 1..Len(list) : FracEq(list[i].avg_pass_rate, AvgPassOf(as, list[i].pid))
  /\ \A i, j \in 1..Len(list) : i < j => RanksBefore(as, list[i].pid, list[j].pid, reverse)
  /\ \A i \in 1..Len(list) : \A q \in SeenPids(as) \ PidsOf(list) :
       RanksBefore(as, list[i].pid, q, reverse)

C8_BestWorstOrder ==
  (pc = "returned" /\ ret.ok) =>
    /\ IsLeadingPart(arg, ret.val.best_overall, 5, TRUE)
    /\ IsLeadingPart(arg, ret.val.worst_overall, 3, FALSE)

(* Reached: several suites and more than five prompts, with a tie in       *)
(* avg_pass_rate across the cut of best_overall and across the cut of      *)
(* worst_overall, so that first sighting decides which entries are listed. *)
C8_Witness ==
  /\ pc = "returned"
  /\ ret.ok
  /\ Cardinality(SeenPids(arg)) > BestCount
  /\ Cardinality({ i \in 1..Len(arg) : arg[i].prompt_analysis # <<>> }) >= 2
  /\ ~NoTieAcrossCut(arg, ret.val.best_overall)
  /\ ~NoTieAcrossCut(arg, ret.val.worst_overall)
  /\ \E i, j \in 1..Len(ret.val.best_overall) :
       ~FracEq(ret.val.best_overall[i].avg_pass_rate, ret.val.best_overall[j].avg_pass_rate)

---------------------------------------------------------------------------
(* Claims about main.                                                      *)

Analyzed(name) ==
  LET report == load_report(fs[name])
  IN  IF report.ok THEN analyze_suite(SuiteId(name), report.val) ELSE report

(* The reports that load and analyze, in the order of report_files.        *)
AnalyzableFiles == SelectSeq(report_files, LAMBDA n : Analyzed(n).ok)

ExpectedAnalyses == List([i \in 1..Len(AnalyzableFiles) |-> Analyzed(AnalyzableFiles[i]).val])

DocumentReflects(expected) ==
  /\ analyses = expected
  /\ Len(doc.sections) = Len(expected)
  /\ \A i \in 1..Len(expected) : doc.sections[i].suite_id = expected[i].suite_id
  /\ doc.totals.total_tests = SumSeq(List([i \in 1..Len(expected) |-> expected[i].total_runs]))
  /\ doc.totals.total_passed =
       SumSeq(List([i \in 1..Len(expected) |-> expected[i].successful_runs]))
  /\ doc.totals.overall_rate =
       Frac(doc.totals.total_passed * 100, Max(1, doc.totals.total_tests))

(* C2: whatever files fail to load or to analyze, the run does not abort:  *)
(* the analyses are exactly the successfully analyzed reports in sorted    *)
(* file order, the document has one suite section per such report and no   *)
(* other, the totals sum only those reports, and the run ends in success.  *)
C2_FailuresAreIsolated ==
  (pc = "exit" /\ report_files # <<>>) =>
    /\ status = 0
    /\ DocumentReflects(ExpectedAnalyses)

(* The part of C2 that the loop itself guarantees: if the run gets to      *)
(* write the document, the document reflects exactly those reports.        *)
C2_WrittenDocumentReflectsAnalyzable ==
  /\ pc \in {"analyze", "render"} => Len(analyses) + Len(errors) = idx
  /\ (pc = "exit" /\ status = 0) => DocumentReflects(ExpectedAnalyses)

(* A report in which fields are only missing: it is JSON, and the fields   *)
(* it has are of the expected shape.                                       *)
OnlyMissingFields(content) ==
  /\ content.k = "map"
  /\ Get(content.v, "rankings", JMap(EmptyDict)).k = "map"

(* C3: a missing field never aborts the run: when the reports only lack    *)
(* fields, analyze_suite fails on none of them and rendering fails on      *)
(* none of the analyses; the run completes and writes the document.        *)
C3_MissingFieldNeverAborts ==
  (/\ pc = "exit"
   /\ report_files # <<>>
   /\ \A i \in 1..Len(report_files) : OnlyMissingFields(fs[report_files[i]])) =>
    /\ errors = <<>>
    /\ status = 0
    /\ OutputName \in DOMAIN fs

IsCoordinatorFamily(name) == name[1] = "coordinator_experiments"

SuiteFilesOnly ==
  SelectSeq(AnalyzableFiles, LAMBDA n : ~IsCoordinatorFamily(n))

(* C4: a coordinator-experiment file is processed only by the coordinator  *)
(* path: no analysis in the analyses list comes from such a file, and the  *)
(* suite sections and totals of the document count the other reports only. *)
C4_CoordinatorFilesOnlyInAppendix ==
  /\ \A k \in 1..Len(analyses) :
       ~\E n \in DOMAIN fs :
          /\ IsCoordinatorFamily(n)
          /\ MatchesReportGlob(n)
          /\ analyses[k].suite_id = SuiteId(n)
  /\ (pc = "exit" /\ status = 0) =>
       /\ Len(doc.sections) = Len(SuiteFilesOnly)
       /\ doc.totals.total_tests =
            SumSeq(List([i \in 1..Len(SuiteFilesOnly) |->
                           Analyzed(SuiteFilesOnly[i]).val.total_runs]))

HeadingsOf(lines) ==
  LET hs == SelectSeq(lines, LAMBDA l : l.line = "h3")
  IN  List([i \in 1..Len(hs) |-> hs[i].name])

(* C9: each coordinator-family file contributes exactly one subsection to  *)
(* the appendix, in file order (its summary, or an error stub in place of  *)
(* the summary), and a failure on one file neither stops the files after   *)
(* it nor aborts the run.                                                  *)
C9_OneAppendixEntryPerFile ==
  /\ pc = "coord" => HeadingsOf(doc.appendix) = SubSeq(coord_files, 1, idx)
  /\ (pc \in {"save", "exit"} /\ doc # <<>>) => HeadingsOf(doc.appendix) = coord_files
  /\ (pc = "exit" /\ doc # <<>>) => status = 0

(* What the loop does guarantee: every file gets a subsection, the         *)
(* subsections follow file order, and the run goes on to save.             *)
C9_EveryFileHasAnEntry ==
  /\ (pc \in {"save", "exit"} /\ doc # <<>>) =>
       /\ \A i \in 1..Len(coord_files) :
            \E k \in 1..Len(HeadingsOf(doc.appendix)) : HeadingsOf(doc.appendix)[k] = coord_files[i]
       /\ \A k \in 1..Len(HeadingsOf(doc.appendix)) - 1 :
            \E i, j \in 1..Len(coord_files) :
              /\ i <= j
              /\ HeadingsOf(doc.appendix)[k] = coord_files[i]
              /\ HeadingsOf(doc.appendix)[k + 1] = coord_files[j]
  /\ (pc = "exit" /\ doc # <<>>) => status = 0

---------------------------------------------------------------------------
(* C10: for every scenarioId of a coordinator file, the scenario row has   *)
(* runCount = the number of records with that scenarioId, passCount = the  *)
(* number of those with passAtN true, and avgDupRate = the sum of dupRate  *)
(* over the count of the records that carry a numeric diagnostics.dupRate  *)
(* (0 when none does); records with an absent or non-numeric dupRate are   *)
(* left out of both.  The row shows avgDupRate times 100.                  *)
RecordsOf(content, sid) ==
  SelectSeq(content.v.results, LAMBDA r : ScenarioIdOf(r) = sid)

FirstRecord(content, sid) ==
  CHOOSE i \in 1..Len(content.v.results) :
    /\ ScenarioIdOf(content.v.results[i]) = sid
    /\ \A j \in 1..(i - 1) : ScenarioIdOf(content.v.results[j]) # sid

SidsOf(content) == { ScenarioIdOf(content.v.results[i]) : i \in 1..Len(content.v.results) }

RowOf(lines, content, sid) ==
  SelectSeq(lines, LAMBDA l : l.line = "row")
    [Cardinality({ s \in SidsOf(content) : FirstRecord(content, s) <= FirstRecord(content, sid) })]

HasJsonNumber(r) ==
  /\ "diagnostics" \in DOMAIN r
  /\ r.diagnostics.k = "map"
  /\ "dupRate" \in DOMAIN r.diagnostics.v
  /\ r.diagnostics.v.dupRate.k = "num"

C10_ScenarioRowStatistics ==
  pc = "returned" =>
    /\ Len(SelectSeq(ret, LAMBDA l : l.line = "row")) = Cardinality(SidsOf(arg))
    /\ \A sid \in SidsOf(arg) :
         LET row == RowOf(ret, arg, sid)
             recs == RecordsOf(arg, sid)
             numeric == SelectSeq(recs, HasJsonNumber)
             total == SumSeq(List([i \in 1..Len(numeric) |-> numeric[i].diagnostics.v.dupRate.v]))
         IN  /\ row.n = Len(recs)
             /\ row.p = Len(SelectSeq(recs, LAMBDA r : Truthy(r, "passAtN")))
             /\ IF numeric = <<>> THEN row.avg_dup.num = 0
                ELSE FracEq(row.avg_dup, Frac(100 * total, Len(numeric)))

====
